---- MODULE Spec2Model ----
(***************************************************************************)
(* Model of the hierarchical router (class Router, RootRouter,             *)
(* ChildRouter) together with the two collaborators it drives: the     *)
(* Grammar (route table) and the Pipeline (guard walk, then activation     *)
(* walk).  Router nodes are identified by the path of child names from the *)
(* root; instructions by the path of viewport names from the root          *)
(* instruction.                                                            *)
(***************************************************************************)
EXTENDS Integers, Sequences, FiniteSets, TLC

\* ------------------------------------------------------------------ bounds
\* Accepted navigations (pipeline.process calls) explored.
MaxNavs == 2
\* Registered ports (router, viewport name) over the whole tree.
MaxPorts == 2
\* Router nodes up to which childRouter is called from outside the pipeline.
MaxRouters == 2
\* traverseInstruction calls explored.
MaxTravs == 1

\* ------------------------------------------------------------- value sets
\* JavaScript undefined: an unset field, a missing argument, no reason.
Undefined == "undefined"

\* The view handle passed to registerViewport.
Views == {"v1"}

\* The route tables handed to config: one app with a redirect and a
\* single-viewport route, one app with sibling viewports and a nested one.
HelloRoutes == {"/", "/welcome"}
SiblingRoutes == {"/users/posts"}

\* URLs handed to navigate: besides routes, an unrouted path and no argument.
HelloUrls == HelloRoutes \cup {"/nowhere", Undefined}
SiblingUrls == SiblingRoutes

RootId == <<>>

\* ------------------------------------------------------------ the Grammar
\* '/' redirects to '/welcome'; every other route is its own canonical URL.
CanonicalUrl(url) == IF url = "/" THEN "/welcome" ELSE url

\* The instruction tree of a canonical URL: instruction path (viewport names
\* from the root instruction) -> component.
TreeOf(canon) ==
  IF canon = "/welcome"
    THEN (<<>> :> "app") @@ (<<"default">> :> "welcome")
  ELSE (<<>> :> "app") @@ (<<"left">> :> "users") @@ (<<"right">> :> "posts")
       @@ (<<"right", "left">> :> "users")

\* Every viewport name of the route tables.
VNames == {"default", "left", "right"}

\* Grammar.recognize: the instruction (here its canonical URL) or null.
Null == "null"
Recognize(reg, url) ==
  IF url \in reg /\ CanonicalUrl(url) \in reg THEN CanonicalUrl(url) ELSE Null

\* instruction.viewports of the instruction at path p: its keys.
ViewportKeys(tree, p) == { v \in VNames : Append(p, v) \in DOMAIN tree }

\* ------------------------------------------------------------------ state
VARIABLES
  navigating,             \* router id -> this.navigating
  lastNavigatedUrl,       \* router id -> this.lastNavigatedUrl
  previousUrl,            \* router id -> this.previousUrl
  lastNavigationAttempt,  \* router id -> this.lastNavigationAttempt
  ports,                  \* router id -> (viewport name -> view handle)
  children,               \* router id -> set of child names
  registry,               \* the shared Grammar: the configured routes
  navs,                   \* the shared Pipeline: every process(instruction) call
  held,                   \* router id -> the registry, pipeline and parent it holds
  trav,                   \* every traverseInstruction(instruction, fn) call
  returned                \* what the API call of this step returned, if any

vars == <<navigating, lastNavigatedUrl, previousUrl, lastNavigationAttempt,
          ports, children, registry, navs, held, trav, returned>>

\* The router nodes that exist.
Routers == DOMAIN navigating

NoCall == [op |-> "none"]

\* ------------------------------------------------------- helper functions
\* boolToPromise / JavaScript truthiness of a URL-valued field.
Truthy(x) == x # Undefined /\ x # Null /\ x # ""

\* this.lastNavigatedUrl == url
LooseEq(a, b) == a = b

EmptyFn == [x \in {} |-> Undefined]

\* this.parent of a non-root node; the parent instruction of an instruction.
Parent(id) == SubSeq(id, 1, Len(id) - 1)

\* Child routers looked up by the viewport name of the child instruction.
RECURSIVE RouterOfViewport(_, _, _)
RouterOfViewport(node, tree, p) ==
  IF p = <<>> THEN node
  ELSE Append(RouterOfViewport(node, tree, Parent(p)), p[Len(p)])

\* childInstruction.router = instruction.router.childRouter(
\* childInstruction.component), from `node` down the instruction `tree`.
RECURSIVE RouterOf(_, _, _)
RouterOf(node, tree, p) ==
  IF p = <<>> THEN node
  ELSE Append(RouterOf(node, tree, Parent(p)), tree[p])

\* The fields every router node holds, with those of freshly constructed nodes.
Extend(f, new, val) == [r \in (DOMAIN f) \cup new |-> IF r \in new THEN val ELSE f[r]]

\* The Grammar and the Pipeline handed to new RootRouter(grammar, pipeline).
TheGrammar == "grammar"
ThePipeline == "pipeline"

\* A child constructed with a Grammar of its own.
ChildRouterFieldsOwnGrammar(of, parent) ==
  [registry |-> "another grammar", pipeline |-> of.pipeline, parent |-> parent]

\* new ChildRouter(parent, name): super(parent.registry, parent.pipeline,
\* parent, name), `of` being what the parent holds.
ChildRouterFields(of, parent) ==
  [registry |-> of.registry, pipeline |-> of.pipeline, parent |-> parent]

\* What node `id` holds once it is constructed.
RECURSIVE HeldBy(_)
HeldBy(id) ==
  IF id \in Routers THEN held[id]
  ELSE ChildRouterFields(HeldBy(Parent(id)), Parent(id))

\* childRouter constructing a child anew although the name is memoized.
CreateRoutersAnew(ids) ==
  LET new == ids IN
  /\ navigating' = Extend(navigating, new, FALSE)
  /\ lastNavigatedUrl' = Extend(lastNavigatedUrl, new, Undefined)
  /\ previousUrl' = Extend(previousUrl, new, Undefined)
  /\ lastNavigationAttempt' = Extend(lastNavigationAttempt, new, Undefined)
  /\ ports' = Extend(ports, new, EmptyFn)
  /\ held' = [r \in Routers \cup new |-> HeldBy(r)]
  /\ children' = [r \in Routers \cup new |->
                    (IF r \in new THEN {} ELSE children[r])
                      \cup { id[Len(id)] : id \in { i \in new : Len(i) > 0 /\ Parent(i) = r } }]

\* constructor / childRouter: construct the nodes of `ids` that do not exist
\* yet and memoize each under its name in its parent's children.
CreateRouters(ids) ==
  LET new == ids \ Routers IN
  /\ navigating' = Extend(navigating, new, FALSE)
  /\ lastNavigatedUrl' = Extend(lastNavigatedUrl, new, Undefined)
  /\ previousUrl' = Extend(previousUrl, new, Undefined)
  /\ lastNavigationAttempt' = Extend(lastNavigationAttempt, new, Undefined)
  /\ ports' = Extend(ports, new, EmptyFn)
  /\ held' = [r \in Routers \cup new |-> HeldBy(r)]
  /\ children' = [r \in Routers \cup new |->
                    (IF r \in new THEN {} ELSE children[r])
                      \cup { id[Len(id)] : id \in { i \in new : Len(i) > 0 /\ Parent(i) = r } }]

\* Every registered port of the tree, as <<router, viewport name>>.
AllPorts == { rv \in Routers \X VNames : rv[2] \in DOMAIN ports[rv[1]] }

\* _startNavigating leaving the flag as it is.
StartNavigatingUnflagged(r) == navigating

\* _startNavigating / _finishNavigating
StartNavigating(r) == [navigating EXCEPT ![r] = TRUE]

FinishNavigating(r) == [navigating EXCEPT ![r] = FALSE]

\* The record the pipeline keeps of one process(instruction) call; routers
\* is instruction.router for each instruction of the tree it has been set on,
\* the root instruction's by navigate itself.
NewNav(r, url, canon) ==
  [node |-> r, url |-> url, canon |-> canon, phase |-> "process",
   pipeReason |-> Undefined, reason |-> Undefined, value |-> Undefined,
   routers |-> (<<>> :> r), guard |-> EmptyFn, act |-> EmptyFn]

\* navigate without the navigating half of its first guard.
NavigateOutcomeReentrant(r, url, reg) ==
  IF LooseEq(lastNavigatedUrl[r], url)
    THEN [result |-> "resolved", calls |-> <<>>]
  ELSE IF Recognize(reg, url) = Null
    THEN [result |-> "rejected", calls |-> <<"recognize">>]
  ELSE [result |-> "pending", calls |-> <<"recognize", "process">>]

\* navigate without the lastNavigatedUrl half of its first guard.
NavigateOutcomeRepeats(r, url, reg) ==
  IF navigating[r]
    THEN [result |-> "resolved", calls |-> <<>>]
  ELSE IF Recognize(reg, url) = Null
    THEN [result |-> "rejected", calls |-> <<"recognize">>]
  ELSE [result |-> "pending", calls |-> <<"recognize", "process">>]

\* navigate(url): what the call returns and which collaborators it calls.
NavigateOutcome(r, url, reg) ==
  IF navigating[r] \/ LooseEq(lastNavigatedUrl[r], url)
    THEN [result |-> "resolved", calls |-> <<>>]
  ELSE IF Recognize(reg, url) = Null
    THEN [result |-> "rejected", calls |-> <<"recognize">>]
  ELSE [result |-> "pending", calls |-> <<"recognize", "process">>]

\* navigate calling _startNavigating before it recognizes the URL.
NavigateBodyStartsEarly(r, url, reg) ==
  IF NavigateOutcome(r, url, reg).result = "pending"
    THEN /\ Len(navs) < MaxNavs
         /\ navigating' = StartNavigating(r)
         /\ navs' = Append(navs, NewNav(r, url, Recognize(reg, url)))
  ELSE IF NavigateOutcome(r, url, reg).result = "rejected"
    THEN navigating' = StartNavigating(r) /\ UNCHANGED navs
  ELSE UNCHANGED <<navigating, navs>>

\* navigate(url): its effect on the node and the pipeline.
NavigateBody(r, url, reg) ==
  IF NavigateOutcome(r, url, reg).result = "pending"
    THEN /\ Len(navs) < MaxNavs
         /\ navigating' = StartNavigating(r)
         /\ navs' = Append(navs, NewNav(r, url, Recognize(reg, url)))
    ELSE UNCHANGED <<navigating, navs>>

\* renavigate(): the destination, and whether navigate is called.
RenavigateDestination(r) ==
  IF Truthy(previousUrl[r]) THEN previousUrl[r] ELSE lastNavigationAttempt[r]

\* renavigate without the destination half of its condition.
RenavigateCallsWhenIdle(r) == ~navigating[r]

RenavigateCalls(r) == ~navigating[r] /\ Truthy(RenavigateDestination(r))

RenavigateOutcome(r, reg) ==
  IF RenavigateCalls(r)
    THEN [result |-> NavigateOutcome(r, RenavigateDestination(r), reg).result,
          calls |-> <<"navigate">> \o NavigateOutcome(r, RenavigateDestination(r), reg).calls]
    ELSE [result |-> "resolved", calls |-> <<>>]

RenavigateBody(r, reg) ==
  IF RenavigateCalls(r)
    THEN NavigateBody(r, RenavigateDestination(r), reg)
    ELSE UNCHANGED <<navigating, navs>>

\* What a call hands back: the settled state of the promise it returns
\* ("pending" while it waits for the pipeline) and the collaborators it called.
Returned(op, r, arg, outcome) ==
  [op |-> op, node |-> r, arg |-> arg, result |-> outcome.result,
   calls |-> outcome.calls]

\* ---------------------------------------------------------------- the API
Navigate(r, url) ==
  /\ NavigateBody(r, url, registry)
  /\ returned' = Returned("navigate", r, url, NavigateOutcome(r, url, registry))
  /\ UNCHANGED <<lastNavigatedUrl, previousUrl, lastNavigationAttempt, ports,
                 children, held, registry, trav>>

Renavigate(r) ==
  /\ RenavigateBody(r, registry)
  /\ returned' = Returned("renavigate", r, Undefined, RenavigateOutcome(r, registry))
  /\ UNCHANGED <<lastNavigatedUrl, previousUrl, lastNavigationAttempt, ports,
                 children, held, registry, trav>>

RegisterViewport(r, view, name) ==
  /\ name \in DOMAIN ports[r] \/ Cardinality(AllPorts) < MaxPorts
  /\ ports' = [ports EXCEPT ![r] = (name :> view) @@ ports[r]]
  /\ RenavigateBody(r, registry)
  /\ returned' = Returned("registerViewport", r, name,
                          RenavigateOutcome(r, registry))
  /\ UNCHANGED <<lastNavigatedUrl, previousUrl, lastNavigationAttempt, children, held,
                 registry, trav>>

Config(r, mapping) ==
  /\ registry' = registry \cup mapping
  /\ RenavigateBody(r, registry')
  /\ returned' = Returned("config", r, Undefined, RenavigateOutcome(r, registry'))
  /\ UNCHANGED <<lastNavigatedUrl, previousUrl, lastNavigationAttempt, ports,
                 children, held, trav>>

ChildRouter(r, name) ==
  /\ Append(r, name) \in Routers \/ Cardinality(Routers) < MaxRouters
  /\ CreateRouters({Append(r, name)})
  /\ returned' = [op |-> "childRouter", node |-> r, child |-> Append(r, name),
                  created |-> Append(r, name) \notin Routers]
  /\ UNCHANGED <<registry, trav, navs>>

\* ----------------------------------------------------------- the Pipeline
\* A map that calls fn for the first key only and waits for it.
IssueCallsSerially(r) ==
  [v \in { w \in DOMAIN ports[r] : w = CHOOSE x \in DOMAIN ports[r] : TRUE } |->
     [view |-> ports[r][v], st |-> "pending"]]

\* mapObjAsync(ports, fn): mapObj calls fn for every key before Promise.all
\* waits, so there is one pending call per registered port.
IssueCalls(r) == [v \in DOMAIN ports[r] |-> [view |-> ports[r][v], st |-> "pending"]]

OpenLevel(r) == [calls |-> IssueCalls(r), descended |-> FALSE]

\* Promise.allSettled in place of Promise.all: a rejected call does not stop
\* the walk.
AllSettled(level) == \A v \in DOMAIN level.calls : level.calls[v].st # "pending"

\* Promise.all over the calls of a level: resolved once every call resolved,
\* rejected once one call rejected.
AllOk(level) == \A v \in DOMAIN level.calls : level.calls[v].st = "ok"

AnyFailed(walk) == \E k \in DOMAIN walk : \E v \in DOMAIN walk[k].calls :
                      walk[k].calls[v].st = "fail"

\* The whole walk resolved: every level that was opened has descended.
WalkDone(walk) == \A k \in DOMAIN walk : walk[k].descended

Settle(walk, k, v, st) == [walk EXCEPT ![k].calls[v].st = st]

\* makeDescendantRouters(instruction): instruction.router of every
\* instruction of the tree, and the routers the walk reaches.
AssignRouters(node, tree) == [p \in DOMAIN tree |-> RouterOf(node, tree, p)]

MakeDescendantRouters(node, tree) ==
  { AssignRouters(node, tree)[p] : p \in DOMAIN tree }

\* A rejection handler that rejects anew, without the reason.
DropRejection(reason) == Undefined

\* .then without a rejection handler hands the rejection reason on untouched.
PassRejection(reason) == reason

\* Promise reactions run in the order they were queued: the second
\* then-callback of an earlier navigation of the node, queued when the first
\* one ran, runs before anything a later navigation of that node waits for.
Runnable(n) ==
  \A k \in 1..(n - 1) : navs[k].node = navs[n].node => navs[k].phase # "finished"

\* process(instruction) begins: makeDescendantRouters, then
\* canDeactivatePorts starts its walk at the instruction's router.
ProcessStart(n) ==
  /\ navs[n].phase = "process"
  /\ Runnable(n)
  /\ CreateRouters(MakeDescendantRouters(navs[n].node, TreeOf(navs[n].canon)))
  /\ navs' = [navs EXCEPT ![n].phase = "guard",
                          ![n].routers = AssignRouters(navs[n].node, TreeOf(navs[n].canon)),
                          ![n].guard = (navs[n].node :> OpenLevel(navs[n].node))]
  /\ returned' = NoCall
  /\ UNCHANGED <<registry, trav>>

\* A port's canDeactivate settles: truthy, or falsy / rejected.
CanDeactivateSettles(n, r, v, st) ==
  /\ r \in DOMAIN navs[n].guard
  /\ v \in DOMAIN navs[n].guard[r].calls
  /\ navs[n].guard[r].calls[v].st = "pending"
  /\ navs' = [navs EXCEPT ![n].guard = Settle(navs[n].guard, r, v, st)]
  /\ returned' = NoCall
  /\ UNCHANGED <<navigating, lastNavigatedUrl, previousUrl, lastNavigationAttempt,
                 ports, children, held, registry, trav>>

\* traversePorts walking the children without waiting for this node's checks.
TraversePortsDescendAtOnce(n, r) ==
  /\ r \in DOMAIN navs[n].guard
  /\ ~navs[n].guard[r].descended
  /\ navs' = [navs EXCEPT ![n].guard =
       [k \in DOMAIN navs[n].guard \cup { Append(r, c) : c \in children[r] } |->
          IF k = r THEN [navs[n].guard[r] EXCEPT !.descended = TRUE]
          ELSE IF k \in DOMAIN navs[n].guard THEN navs[n].guard[k]
          ELSE OpenLevel(k)]]
  /\ returned' = NoCall
  /\ UNCHANGED <<navigating, lastNavigatedUrl, previousUrl, lastNavigationAttempt,
                 ports, children, held, registry, trav>>

\* traversePorts: once this node's checks all passed, walk the children that
\* exist by then.
TraversePortsDescend(n, r) ==
  /\ r \in DOMAIN navs[n].guard
  /\ ~navs[n].guard[r].descended
  /\ AllOk(navs[n].guard[r])
  /\ navs' = [navs EXCEPT ![n].guard =
       [k \in DOMAIN navs[n].guard \cup { Append(r, c) : c \in children[r] } |->
          IF k = r THEN [navs[n].guard[r] EXCEPT !.descended = TRUE]
          ELSE IF k \in DOMAIN navs[n].guard THEN navs[n].guard[k]
          ELSE OpenLevel(k)]]
  /\ returned' = NoCall
  /\ UNCHANGED <<navigating, lastNavigatedUrl, previousUrl, lastNavigationAttempt,
                 ports, children, held, registry, trav>>

\* The guard walk resolved: the pipeline goes on to activatePorts on the
\* instruction's router.
GuardResolves(n) ==
  /\ navs[n].phase = "guard"
  /\ WalkDone(navs[n].guard)
  /\ navs' = [navs EXCEPT ![n].phase = "activate",
                          ![n].act = (<<>> :> OpenLevel(navs[n].node))]
  /\ returned' = NoCall
  /\ UNCHANGED <<navigating, lastNavigatedUrl, previousUrl, lastNavigationAttempt,
                 ports, children, held, registry, trav>>

\* A pipeline step rejected: process rejects and navigate's chain hands the
\* reason on; neither then-callback of navigate runs.
ProcessRejects(n) ==
  /\ \/ navs[n].phase = "guard" /\ AnyFailed(navs[n].guard)
     \/ navs[n].phase = "activate" /\ AnyFailed(navs[n].act)
  /\ navs' = [navs EXCEPT ![n].phase = "rejected",
                          ![n].pipeReason = navs[n].phase,
                          ![n].reason = PassRejection(navs[n].phase)]
  /\ returned' = NoCall
  /\ UNCHANGED <<navigating, lastNavigatedUrl, previousUrl, lastNavigationAttempt,
                 ports, children, held, registry, trav>>

\* A port's activate settles.
ActivateSettles(n, p, v, st) ==
  /\ p \in DOMAIN navs[n].act
  /\ v \in DOMAIN navs[n].act[p].calls
  /\ navs[n].act[p].calls[v].st = "pending"
  /\ navs' = [navs EXCEPT ![n].act = Settle(navs[n].act, p, v, st)]
  /\ returned' = NoCall
  /\ UNCHANGED <<navigating, lastNavigatedUrl, previousUrl, lastNavigationAttempt,
                 ports, children, held, registry, trav>>

\* activatePorts delegating to the child instructions without waiting for
\* this router's own activations.
ActivatePortsDescendAtOnce(n, p) ==
  LET tree == TreeOf(navs[n].canon)
      kids == { Append(p, v) : v \in ViewportKeys(tree, p) }
  IN
  /\ p \in DOMAIN navs[n].act
  /\ ~navs[n].act[p].descended
  /\ navs' = [navs EXCEPT ![n].act =
       [k \in DOMAIN navs[n].act \cup kids |->
          IF k = p THEN [navs[n].act[p] EXCEPT !.descended = TRUE]
          ELSE IF k \in DOMAIN navs[n].act THEN navs[n].act[k]
          ELSE OpenLevel(navs[n].routers[k])]]
  /\ returned' = NoCall
  /\ UNCHANGED <<navigating, lastNavigatedUrl, previousUrl, lastNavigationAttempt,
                 ports, children, held, registry, trav>>

\* activatePorts: once this router's activations all resolved, every child
\* instruction's router activates its own ports.
ActivatePortsDescend(n, p) ==
  LET tree == TreeOf(navs[n].canon)
      kids == { Append(p, v) : v \in ViewportKeys(tree, p) }
  IN
  /\ p \in DOMAIN navs[n].act
  /\ ~navs[n].act[p].descended
  /\ AllOk(navs[n].act[p])
  /\ navs' = [navs EXCEPT ![n].act =
       [k \in DOMAIN navs[n].act \cup kids |->
          IF k = p THEN [navs[n].act[p] EXCEPT !.descended = TRUE]
          ELSE IF k \in DOMAIN navs[n].act THEN navs[n].act[k]
          ELSE OpenLevel(navs[n].routers[k])]]
  /\ returned' = NoCall
  /\ UNCHANGED <<navigating, lastNavigatedUrl, previousUrl, lastNavigationAttempt,
                 ports, children, held, registry, trav>>

\* The activation walk resolved: process(instruction) resolves.
ProcessResolves(n) ==
  /\ navs[n].phase = "activate"
  /\ WalkDone(navs[n].act)
  /\ navs' = [navs EXCEPT ![n].phase = "resolved", ![n].guard = EmptyFn,
                          ![n].act = EmptyFn]
  /\ returned' = NoCall
  /\ UNCHANGED <<navigating, lastNavigatedUrl, previousUrl, lastNavigationAttempt,
                 ports, children, held, registry, trav>>

\* navigate's first then-callback: this._finishNavigating().
FinishStep(n) ==
  /\ navs[n].phase = "resolved"
  /\ navigating' = FinishNavigating(navs[n].node)
  /\ navs' = [navs EXCEPT ![n].phase = "finished"]
  /\ returned' = NoCall
  /\ UNCHANGED <<lastNavigatedUrl, previousUrl, lastNavigationAttempt, ports,
                 children, held, registry, trav>>

\* Recording the URL navigate was called with.
RequestedUrl(nav) == nav.url

\* instruction.canonicalUrl, which navigate records and returns.
RecordedUrl(nav) == nav.canon

\* navigate's second then-callback: record and return the canonical URL.
RecordStep(n) ==
  /\ navs[n].phase = "finished"
  /\ lastNavigatedUrl' = [lastNavigatedUrl EXCEPT ![navs[n].node] = RecordedUrl(navs[n])]
  /\ navs' = [navs EXCEPT ![n].phase = "recorded", ![n].value = RecordedUrl(navs[n])]
  /\ returned' = NoCall
  /\ UNCHANGED <<navigating, previousUrl, lastNavigationAttempt, ports, children, held,
                 registry, trav>>

\* ------------------------------------------------- traverseInstruction
\* What fn(childInstruction, viewportName) hands back: a boolean, nothing, or
\* a promise that rejects.
FnResults == {"true", "false", Undefined, "rejected promise"}

\* boolToPromise(value): a falsy value rejects; anything else, a promise
\* included, is resolved with, and resolving with a rejected promise rejects.
BoolToPromise(value) ==
  IF value \in {"false", Undefined, "rejected promise"} THEN "fail" ELSE "ok"

\* mapObjAsync(instruction.viewports, fn): one pending application of fn per
\* viewport of the instruction at path p.
ApplyFn(tree, p) ==
  [calls |-> [v \in ViewportKeys(tree, p) |-> [st |-> "pending"]],
   descended |-> FALSE]

\* The instruction handed to traverseInstruction: the root instruction of
\* navigation n, or none (0).
NoInstruction == 0

\* traverseInstruction(instruction, fn): resolved at once without an
\* instruction, otherwise fn is applied to every viewport of the instruction.
TraverseInstruction(n) ==
  /\ Len(trav) < MaxTravs
  /\ trav' = Append(trav,
       IF n = NoInstruction
         THEN [inst |-> n, result |-> "resolved", thrown |-> FALSE, levels |-> EmptyFn]
         ELSE [inst |-> n, result |-> "pending", thrown |-> FALSE,
               levels |-> (<<>> :> ApplyFn(TreeOf(navs[n].canon), <<>>))])
  /\ returned' = [op |-> "traverseInstruction", inst |-> n]
  /\ UNCHANGED <<navigating, lastNavigatedUrl, previousUrl, lastNavigationAttempt,
                 ports, children, held, registry, navs>>

\* An application of fn settles.
FnSettles(t, p, v, value) ==
  /\ p \in DOMAIN trav[t].levels
  /\ v \in DOMAIN trav[t].levels[p].calls
  /\ trav[t].levels[p].calls[v].st = "pending"
  /\ trav' = [trav EXCEPT ![t].levels = Settle(trav[t].levels, p, v, BoolToPromise(value))]
  /\ returned' = NoCall
  /\ UNCHANGED <<navigating, lastNavigatedUrl, previousUrl, lastNavigationAttempt,
                 ports, children, held, registry, navs>>

\* traverseInstruction recursing without waiting for the level's applications.
TraverseInstructionDescendAtOnce(t, p) ==
  LET tree == TreeOf(navs[trav[t].inst].canon)
      kids == { Append(p, v) : v \in ViewportKeys(tree, p) }
      routed == kids \subseteq DOMAIN navs[trav[t].inst].routers
  IN
  /\ p \in DOMAIN trav[t].levels
  /\ ~trav[t].levels[p].descended
  /\ trav' = [trav EXCEPT
       ![t].thrown = trav[t].thrown \/ ~routed,
       ![t].levels =
         [k \in DOMAIN trav[t].levels \cup (IF routed THEN kids ELSE {}) |->
            IF k = p THEN [trav[t].levels[p] EXCEPT !.descended = TRUE]
            ELSE IF k \in DOMAIN trav[t].levels THEN trav[t].levels[k]
            ELSE ApplyFn(tree, k)]]
  /\ returned' = NoCall
  /\ UNCHANGED <<navigating, lastNavigatedUrl, previousUrl, lastNavigationAttempt,
                 ports, children, held, registry, navs>>

\* The then-callback of traverseInstruction: once every application of the
\* level resolved, each child instruction's router traverses the child; a
\* child whose router is not assigned yet makes the callback throw.
TraverseInstructionDescend(t, p) ==
  LET tree == TreeOf(navs[trav[t].inst].canon)
      kids == { Append(p, v) : v \in ViewportKeys(tree, p) }
      routed == kids \subseteq DOMAIN navs[trav[t].inst].routers
  IN
  /\ p \in DOMAIN trav[t].levels
  /\ ~trav[t].levels[p].descended
  /\ AllOk(trav[t].levels[p])
  /\ trav' = [trav EXCEPT
       ![t].thrown = trav[t].thrown \/ ~routed,
       ![t].levels =
         [k \in DOMAIN trav[t].levels \cup (IF routed THEN kids ELSE {}) |->
            IF k = p THEN [trav[t].levels[p] EXCEPT !.descended = TRUE]
            ELSE IF k \in DOMAIN trav[t].levels THEN trav[t].levels[k]
            ELSE ApplyFn(tree, k)]]
  /\ returned' = NoCall
  /\ UNCHANGED <<navigating, lastNavigatedUrl, previousUrl, lastNavigationAttempt,
                 ports, children, held, registry, navs>>

\* The promise traverseInstruction returned resolves: every level resolved
\* and recursed.
TraverseResolves(t) ==
  /\ trav[t].result = "pending"
  /\ WalkDone(trav[t].levels)
  /\ ~trav[t].thrown
  /\ trav' = [trav EXCEPT ![t].result = "resolved"]
  /\ returned' = NoCall
  /\ UNCHANGED <<navigating, lastNavigatedUrl, previousUrl, lastNavigationAttempt,
                 ports, children, held, registry, navs>>

\* The promise rejects: an application failed or a callback threw.
TraverseRejects(t) ==
  /\ trav[t].result = "pending"
  /\ AnyFailed(trav[t].levels) \/ trav[t].thrown
  /\ trav' = [trav EXCEPT ![t].result = "rejected"]
  /\ returned' = NoCall
  /\ UNCHANGED <<navigating, lastNavigatedUrl, previousUrl, lastNavigationAttempt,
                 ports, children, held, registry, navs>>

\* ------------------------------------------------------- the specification
\* new RootRouter(grammar, pipeline)
Init ==
  /\ navigating = (RootId :> FALSE)
  /\ lastNavigatedUrl = (RootId :> Undefined)
  /\ previousUrl = (RootId :> Undefined)
  /\ lastNavigationAttempt = (RootId :> Undefined)
  /\ ports = (RootId :> EmptyFn)
  /\ children = (RootId :> {})
  /\ held = (RootId :> [registry |-> TheGrammar, pipeline |-> ThePipeline, parent |-> Null])
  /\ trav = <<>>
  /\ registry = {}
  /\ navs = <<>>
  /\ returned = NoCall

\* The steps of the pipeline and of navigate's promise chain.
Internal ==
  \/ \E n \in DOMAIN navs : ProcessStart(n)
  \/ \E n \in DOMAIN navs, r \in Routers, v \in VNames, st \in {"ok", "fail"} :
        CanDeactivateSettles(n, r, v, st)
  \/ \E n \in DOMAIN navs, r \in Routers : TraversePortsDescend(n, r)
  \/ \E n \in DOMAIN navs : GuardResolves(n)
  \/ \E n \in DOMAIN navs : ProcessRejects(n)
  \/ \E n \in DOMAIN navs : \E p \in DOMAIN navs[n].act, v \in VNames, st \in {"ok", "fail"} :
        ActivateSettles(n, p, v, st)
  \/ \E n \in DOMAIN navs : \E p \in DOMAIN navs[n].act : ActivatePortsDescend(n, p)
  \/ \E n \in DOMAIN navs : ProcessResolves(n)
  \/ \E n \in DOMAIN navs : FinishStep(n)
  \/ \E n \in DOMAIN navs : RecordStep(n)

\* The nodes the application calls: the root and its children.
AppNodes == { r \in Routers : Len(r) <= 1 }

\* The hello application: every operation on the root and its children,
\* the view of the root's default viewport registered at any time.
Next ==
  \/ \E r \in AppNodes, url \in HelloUrls : Navigate(r, url)
  \/ \E r \in AppNodes : Renavigate(r)
  \/ \E view \in Views : RegisterViewport(RootId, view, "default")
  \/ Config(RootId, HelloRoutes)
  \/ ChildRouter(RootId, "welcome")
  \/ Internal

Spec == Init /\ [][Next]_vars

\* The sibling-routes application: navigation from the root, viewports
\* registered on every node of the tree.
SiblingSlots(r) == IF r = RootId THEN {"left", "right"} ELSE {"left"}

WalkNext ==
  \/ \E url \in SiblingUrls : Navigate(RootId, url)
  \/ \E r \in Routers : \E name \in SiblingSlots(r) : \E view \in Views : RegisterViewport(r, view, name)
  \/ Config(RootId, SiblingRoutes)
  \/ Internal

WalkSpec == Init /\ [][WalkNext]_vars

\* A caller of traverseInstruction: the sibling-routes application without
\* views, the instructions of its navigations traversed with any fn.
TraverseNext ==
  \/ Config(RootId, SiblingRoutes)
  \/ \E url \in SiblingUrls : Navigate(RootId, url)
  \/ \E n \in DOMAIN navs : ProcessStart(n)
  \/ \E n \in DOMAIN navs, r \in Routers : TraversePortsDescend(n, r)
  \/ \E n \in DOMAIN navs : GuardResolves(n)
  \/ \E n \in DOMAIN navs : \E p \in DOMAIN navs[n].act : ActivatePortsDescend(n, p)
  \/ \E n \in DOMAIN navs : ProcessResolves(n)
  \/ \E n \in DOMAIN navs : FinishStep(n)
  \/ \E n \in DOMAIN navs : RecordStep(n)
  \/ \E n \in DOMAIN navs \cup {NoInstruction} : TraverseInstruction(n)
  \/ \E t \in DOMAIN trav : \E p \in DOMAIN trav[t].levels, v \in VNames, value \in FnResults :
        FnSettles(t, p, v, value)
  \/ \E t \in DOMAIN trav : \E p \in DOMAIN trav[t].levels : TraverseInstructionDescend(t, p)
  \/ \E t \in DOMAIN trav : TraverseResolves(t)
  \/ \E t \in DOMAIN trav : TraverseRejects(t)

TraverseSpec == Init /\ [][TraverseNext]_vars

\* ------------------------------------------------------------- properties
\* Navigation n is the last one its node accepted.
LatestOn(n) == \A m \in DOMAIN navs : m > n => navs[m].node # navs[n].node

InFlight(n) == navs[n].phase \in {"process", "guard", "activate"}

\* This step is a call of navigate.
NavigateCalled == returned'.op = "navigate"

NodeFrame == UNCHANGED <<navigating, lastNavigatedUrl, ports, children, navs>>

\* Every call of a level has settled.
Settled(level) == \A v \in DOMAIN level.calls : level.calls[v].st # "pending"

Resolved(level) == \A v \in DOMAIN level.calls : level.calls[v].st = "ok"

Failed(level) == \E v \in DOMAIN level.calls : level.calls[v].st = "fail"

IsProperPrefix(p, q) == Len(p) < Len(q) /\ SubSeq(q, 1, Len(p)) = p

\* C1 (as claimed): once the navigate promise of the last navigation a node
\* accepted has settled, by success or by rejection, the node is idle again.
C1_SettledLeavesIdle ==
  \A n \in DOMAIN navs :
    (navs[n].phase \in {"rejected", "recorded"} /\ LatestOn(n))
      => ~navigating[navs[n].node]

\* C2: navigate on a node that is navigating returns a resolved promise, calls
\* neither recognize nor process, and changes nothing of the node or of the
\* navigation in flight.
C2_NavigateWhileNavigating ==
  [][(NavigateCalled /\ navigating[returned'.node])
       => /\ returned'.result = "resolved"
          /\ returned'.calls = <<>>
          /\ NodeFrame]_vars

C2_Witness ==
  /\ returned.op = "navigate"
  /\ returned.result = "resolved"
  /\ navigating[returned.node]
  /\ \E n \in DOMAIN navs : navs[n].node = returned.node /\ InFlight(n)

\* C3: navigate(url) on an idle node whose lastNavigatedUrl is url resolves
\* without calling process and without entering Navigating.
C3_SameUrlIsNoOp ==
  [][(/\ NavigateCalled
      /\ ~navigating[returned'.node]
      /\ lastNavigatedUrl[returned'.node] = returned'.arg)
       => /\ returned'.result = "resolved"
          /\ returned'.calls = <<>>
          /\ Len(navs') = Len(navs)
          /\ ~navigating'[returned'.node]]_vars

C3_Witness ==
  /\ returned.op = "navigate"
  /\ returned.result = "resolved"
  /\ ~navigating[returned.node]
  /\ returned.arg # Undefined
  /\ returned.arg = lastNavigatedUrl[returned.node]

\* C4 (as claimed): navigate on an idle node with a URL the grammar does not
\* match rejects and changes nothing.
C4_UnmatchedRejects ==
  [][(/\ NavigateCalled
      /\ ~navigating[returned'.node]
      /\ Recognize(registry, returned'.arg) = Null)
       => (returned'.result = "rejected" /\ NodeFrame)]_vars

\* C4 (amended): navigate on an idle node with a URL that differs from
\* lastNavigatedUrl and that the grammar does not match rejects after
\* recognize alone was called, navigating stays false, and lastNavigatedUrl,
\* ports, children and the pipeline are unchanged.
C4_UnmatchedOtherUrlRejects ==
  [][(/\ NavigateCalled
      /\ ~navigating[returned'.node]
      /\ lastNavigatedUrl[returned'.node] # returned'.arg
      /\ Recognize(registry, returned'.arg) = Null)
       => /\ returned'.result = "rejected"
          /\ returned'.calls = <<"recognize">>
          /\ ~navigating'[returned'.node]
          /\ NodeFrame]_vars

C4_Witness ==
  /\ returned.op = "navigate"
  /\ returned.result = "rejected"
  /\ returned.arg = "/nowhere"
  /\ ~navigating[returned.node]
  /\ "/" \in registry

\* C5: a navigation whose process resolved resolves with the instruction's
\* canonical URL and, as long as it is the last navigation the node accepted,
\* leaves the node idle with that canonical URL as lastNavigatedUrl.
C5_ResolvesWithCanonicalUrl ==
  \A n \in DOMAIN navs :
    navs[n].phase = "recorded"
      => /\ navs[n].value = navs[n].canon
         /\ navs[n].canon = CanonicalUrl(navs[n].url)
         /\ LatestOn(n) => /\ ~navigating[navs[n].node]
                           /\ lastNavigatedUrl[navs[n].node] = navs[n].canon

C5_Witness ==
  \E n \in DOMAIN navs :
    /\ navs[n].phase = "recorded"
    /\ LatestOn(n)
    /\ navs[n].url = "/"
    /\ navs[n].value = "/welcome"
    /\ lastNavigatedUrl[navs[n].node] = "/welcome"
    /\ ~navigating[navs[n].node]

\* C6 (as claimed): a navigation the guard walk vetoed has invoked no
\* activate, its navigate promise is rejected, and its node is idle again.
C6_VetoAborts ==
  \A n \in DOMAIN navs :
    /\ (navs[n].phase = "guard" /\ AnyFailed(navs[n].guard)) => DOMAIN navs[n].act = {}
    /\ (navs[n].phase = "rejected" /\ navs[n].pipeReason = "guard")
         => /\ DOMAIN navs[n].act = {}
            /\ ~navigating[navs[n].node]

\* C7: a navigation whose process rejects is rejected with the pipeline's
\* reason and stays rejected; the step that rejects it leaves lastNavigatedUrl
\* alone, and a node's lastNavigatedUrl is written by nothing but the second
\* then-callback of a navigation whose process resolved, which a rejected
\* navigation never reaches.
C7_RejectionKeepsUrl ==
  [][/\ \A n \in DOMAIN navs :
          /\ (navs[n].phase # "rejected" /\ navs'[n].phase = "rejected")
               => /\ navs'[n].pipeReason \in {"guard", "activate"}
                  /\ navs'[n].reason = navs'[n].pipeReason
                  /\ lastNavigatedUrl' = lastNavigatedUrl
          /\ navs[n].phase = "rejected"
               => (navs'[n].phase = "rejected" /\ navs'[n].reason = navs[n].reason)
     /\ \A r \in Routers :
          lastNavigatedUrl'[r] # lastNavigatedUrl[r]
            => \E n \in DOMAIN navs :
                  /\ navs[n].node = r
                  /\ navs[n].phase = "finished"
                  /\ navs'[n].phase = "recorded"]_vars

C7_Witness ==
  \E n \in DOMAIN navs :
    /\ navs[n].phase = "rejected"
    /\ navs[n].reason = "activate"
    /\ lastNavigatedUrl[navs[n].node] = "/welcome"

\* C8 (as claimed): registerViewport on an idle node that has completed a
\* navigation replays that navigation's URL: it calls process with the
\* instruction of lastNavigatedUrl.
C8_RegisterReplays ==
  [][(/\ returned'.op = "registerViewport"
      /\ ~navigating[returned'.node]
      /\ lastNavigatedUrl[returned'.node] # Undefined)
       => /\ Len(navs') = Len(navs) + 1
          /\ navs'[Len(navs')].canon = lastNavigatedUrl[returned'.node]]_vars

\* C9 (as claimed): when an activation of depth N+1 has begun, every
\* activation of depth N of the whole instruction tree has been invoked and
\* has settled.
C9_DepthBarrier ==
  \A n \in DOMAIN navs : \A q \in DOMAIN navs[n].act :
    DOMAIN navs[n].act[q].calls # {}
      => \A p \in DOMAIN TreeOf(navs[n].canon) :
            Len(p) + 1 = Len(q)
              => (p \in DOMAIN navs[n].act /\ Settled(navs[n].act[p]))

\* C9 (amended): when an activation on the ports of an instruction's router
\* has begun, the activations of every instruction above it in the tree, the
\* single depth-1 level included, have been invoked and have settled.
C9_ChainBarrier ==
  \A n \in DOMAIN navs : \A q \in DOMAIN navs[n].act :
    \A p \in DOMAIN TreeOf(navs[n].canon) :
      IsProperPrefix(p, q)
        => /\ p \in DOMAIN navs[n].act
           /\ Settled(navs[n].act[p])
           /\ navs[n].act[p].descended

C9_Witness ==
  \E n \in DOMAIN navs : \E q \in DOMAIN navs[n].act :
    /\ Len(q) = 2
    /\ DOMAIN navs[n].act[q].calls # {}
    /\ DOMAIN navs[n].act[Parent(q)].calls # {}

\* C10: an instruction delegated to a child router is activated only once
\* every activate on the parent router's own ports has resolved; below a
\* level with a rejected activation no instruction is activated.
C10_ParentBeforeChild ==
  \A n \in DOMAIN navs :
    /\ \A q \in DOMAIN navs[n].act :
          q # <<>> => /\ Parent(q) \in DOMAIN navs[n].act
                      /\ Resolved(navs[n].act[Parent(q)])
    /\ \A p \in DOMAIN navs[n].act :
          Failed(navs[n].act[p])
            => \A q \in DOMAIN navs[n].act : ~IsProperPrefix(p, q)

C10_Witness ==
  \E n \in DOMAIN navs : \E p \in DOMAIN navs[n].act :
    /\ Failed(navs[n].act[p])
    /\ navs[n].phase = "rejected"
    /\ \E v \in ViewportKeys(TreeOf(navs[n].canon), p) :
          /\ Append(p, v) \notin DOMAIN navs[n].act
          /\ DOMAIN ports[RouterOf(navs[n].node, TreeOf(navs[n].canon), Append(p, v))] # {}

\* Some activate of navigation n has rejected.
ActivationFailed(n) == \E p \in DOMAIN navs[n].act : Failed(navs[n].act[p])

\* C11: when activatePorts runs on a router, activate is invoked on every port
\* registered on it, an invoked activation stays invoked whatever the others
\* do, and a navigation with a rejected activation never resolves: it stays in
\* the activation walk until its process rejects.
C11_SiblingsAllActivated ==
  [][\A n \in DOMAIN navs :
       /\ \A p \in DOMAIN navs'[n].act :
            IF p \notin DOMAIN navs[n].act
              THEN DOMAIN navs'[n].act[p].calls = DOMAIN ports[navs[n].routers[p]]
              ELSE DOMAIN navs'[n].act[p].calls = DOMAIN navs[n].act[p].calls
       /\ (navs[n].phase = "activate" /\ ActivationFailed(n))
            => navs'[n].phase \in {"activate", "rejected"}]_vars

C11_Witness ==
  \E n \in DOMAIN navs : \E p \in DOMAIN navs[n].act :
    /\ navs[n].phase = "rejected"
    /\ navs[n].pipeReason = "activate"
    /\ \E v, w \in DOMAIN navs[n].act[p].calls :
          /\ v # w
          /\ navs[n].act[p].calls[v].st = "fail"
          /\ navs[n].act[p].calls[w].st = "ok"

\* C12: childRouter(name) creates the child on the first call and returns the
\* memoized child, untouched, on every later call; each name of a children map
\* stands for one existing node, and no step removes or replaces a node or a
\* children entry.
C12_ChildRouterMemoizes ==
  [][/\ Routers \subseteq Routers'
     /\ \A r \in Routers :
          /\ children[r] \subseteq children'[r]
          /\ \A name \in children[r] : Append(r, name) \in Routers
          /\ held'[r] = held[r]
          /\ ports'[r] = ports[r] \/ returned'.op = "registerViewport"
     /\ returned'.op = "childRouter"
          => IF returned'.child \in Routers
               THEN /\ ~returned'.created
                    /\ UNCHANGED <<navigating, lastNavigatedUrl, ports, children, held>>
               ELSE /\ returned'.created
                    /\ Routers' = Routers \cup {returned'.child}
                    /\ children'[returned'.node]
                         = children[returned'.node] \cup {returned'.child[Len(returned'.child)]}
                    /\ \A r \in Routers \ {returned'.node} : children'[r] = children[r]]_vars

C12_Witness ==
  /\ returned.op = "childRouter"
  /\ ~returned.created
  /\ navigating[returned.child]
  /\ children[returned.node] = {"welcome"}

\* A field holds a value JavaScript takes for true.
IsSet(x) == x \notin {Undefined, Null, ""}

C14_SharedCollaborators ==
  \A r \in Routers :
    /\ held[r].registry = held[RootId].registry
    /\ held[r].pipeline = held[RootId].pipeline
    /\ IF r = RootId
         THEN held[r].parent = Null
         ELSE /\ held[r].parent \in Routers
              /\ r[Len(r)] \in children[held[r].parent]
              /\ Append(held[r].parent, r[Len(r)]) = r

C14_Witness ==
  \E r \in Routers :
    /\ Len(r) = 2
    /\ held[r].parent # RootId
    /\ held[r].registry = TheGrammar
    /\ held[r].pipeline = ThePipeline

\* C15 (as claimed): the activations activatePorts invokes for an instruction
\* are exactly those of the instruction's viewport names: none for a name that
\* is not a key of instruction.viewports, and one for every key.
C15_ActivatesInstructionKeys ==
  \A n \in DOMAIN navs : \A p \in DOMAIN navs[n].act :
    DOMAIN navs[n].act[p].calls = ViewportKeys(TreeOf(navs[n].canon), p)

\* C16: when makeDescendantRouters has run, the router of every instruction
\* below the root instruction is the child, named by the instruction's
\* component, of its parent instruction's router, and that child exists and is
\* memoized; instructions with one parent and one component share a router;
\* and a walk repeated for the same node and tree assigns the same routers
\* and creates no node.
C16_RoutersKeyedByComponent ==
  [][\A n \in DOMAIN navs :
       (navs[n].phase = "process" /\ navs'[n].phase = "guard")
         => LET tree == TreeOf(navs[n].canon)
                rs == navs'[n].routers
            IN /\ DOMAIN rs = DOMAIN tree
               /\ rs[<<>>] = navs[n].node
               /\ \A p \in DOMAIN tree \ {<<>>} :
                     /\ rs[p] = Append(rs[Parent(p)], tree[p])
                     /\ rs[p] \in Routers'
                     /\ tree[p] \in children'[rs[Parent(p)]]
               /\ \A p, q \in DOMAIN tree \ {<<>>} :
                     (Parent(p) = Parent(q) /\ tree[p] = tree[q]) => rs[p] = rs[q]
               /\ \A m \in DOMAIN navs :
                     (/\ m # n
                      /\ navs[m].node = navs[n].node
                      /\ navs[m].canon = navs[n].canon
                      /\ navs[m].phase # "process")
                       => /\ rs = navs[m].routers
                          /\ Routers' = Routers
                          /\ children' = children]_vars

C16_Witness ==
  \E m, n \in DOMAIN navs :
    /\ m < n
    /\ navs[m].node = navs[n].node
    /\ navs[n].phase # "process"
    /\ navs[n].routers = navs[m].routers
    /\ <<"right", "left">> \in DOMAIN navs[n].routers
    /\ navs[n].routers[<<"right", "left">>] = <<"posts", "users">>
    /\ navs[n].routers[<<"left">>] = <<"users">>

\* C17 (as claimed): once a canDeactivate check of some router node has
\* failed, canDeactivate is invoked on no port of any router node deeper in
\* the tree than that node.
C17_VetoStopsDeeperChecks ==
  [][\A n \in DOMAIN navs : \A r \in DOMAIN navs[n].guard :
       Failed(navs[n].guard[r])
         => \A q \in DOMAIN navs'[n].guard \ DOMAIN navs[n].guard :
               Len(q) > Len(r) => DOMAIN navs'[n].guard[q].calls = {}]_vars

\* C17 (amended): the checks of a router node other than the one the walk
\* started at are invoked only once every check of its parent node has
\* resolved, and below a node with a failed check no node is ever checked.
C17_GuardChainBarrier ==
  \A n \in DOMAIN navs : \A r \in DOMAIN navs[n].guard :
    /\ r # navs[n].node
          => /\ Parent(r) \in DOMAIN navs[n].guard
             /\ Resolved(navs[n].guard[Parent(r)])
             /\ navs[n].guard[Parent(r)].descended
    /\ Failed(navs[n].guard[r])
          => \A q \in DOMAIN navs[n].guard : ~IsProperPrefix(r, q)

C17_Witness ==
  \E n \in DOMAIN navs : \E r \in DOMAIN navs[n].guard :
    /\ Failed(navs[n].guard[r])
    /\ navs[n].phase = "rejected"
    /\ navs[n].pipeReason = "guard"
    /\ \E c \in children[r] :
          /\ Append(r, c) \notin DOMAIN navs[n].guard
          /\ DOMAIN ports[Append(r, c)] # {}

\* C18: traverseInstruction applies fn to every viewport of a level; it
\* recurses into a child's traversal only once every application of the
\* parent's level has resolved; below a level with a failed application fn is
\* applied to nothing and the traversal does not resolve; without an
\* instruction it resolves and applies fn to nothing.
C18_TraverseLevelBarrier ==
  \A t \in DOMAIN trav :
    IF trav[t].inst = NoInstruction
      THEN trav[t].result = "resolved" /\ DOMAIN trav[t].levels = {}
      ELSE \A q \in DOMAIN trav[t].levels :
             /\ DOMAIN trav[t].levels[q].calls
                  = ViewportKeys(TreeOf(navs[trav[t].inst].canon), q)
             /\ q # <<>> => /\ Parent(q) \in DOMAIN trav[t].levels
                             /\ Resolved(trav[t].levels[Parent(q)])
             /\ Failed(trav[t].levels[q])
                  => /\ trav[t].result # "resolved"
                     /\ \A k \in DOMAIN trav[t].levels : ~IsProperPrefix(q, k)

C18_Witness ==
  \E t \in DOMAIN trav :
    /\ trav[t].inst # NoInstruction
    /\ trav[t].result = "rejected"
    /\ ~trav[t].thrown
    /\ DOMAIN trav[t].levels = {<<>>}
    /\ trav[t].levels[<<>>].calls["left"].st = "fail"
    /\ trav[t].levels[<<>>].calls["right"].st = "ok"
    /\ <<"right", "left">> \in DOMAIN navs[trav[t].inst].routers

\* No two process calls issued by one node are unsettled together.
OneInFlight ==
  \A m, n \in DOMAIN navs :
    (m # n /\ navs[m].node = navs[n].node) => ~(InFlight(m) /\ InFlight(n))

\* C19: at most one process call issued by a node is unsettled at any time,
\* and the guard is the node's own: a navigate call resolved as a no-op only
\* if its own node was navigating or had the URL as lastNavigatedUrl, was
\* rejected only if the grammar does not match the URL, and otherwise called
\* process for its node, whatever the other nodes of the tree were doing.
C19_OneProcessPerNode ==
  /\ OneInFlight
  /\ returned.op = "navigate"
       => /\ returned.result = "resolved"
               => \/ navigating[returned.node]
                  \/ lastNavigatedUrl[returned.node] = returned.arg
          /\ returned.result = "rejected"
               => Recognize(registry, returned.arg) = Null
          /\ returned.result = "pending"
               => /\ navs[Len(navs)].node = returned.node
                  /\ navs[Len(navs)].phase = "process"
                  /\ navigating[returned.node]

C19_Witness ==
  /\ returned.op = "navigate"
  /\ returned.result = "pending"
  /\ \E m, n \in DOMAIN navs :
        /\ navs[m].node # navs[n].node
        /\ navs[n].node = returned.node
        /\ InFlight(m)
        /\ InFlight(n)
        /\ navigating[navs[m].node]

\* C20 (as claimed): navigate(u) on a node that is not navigating, u being the
\* canonical URL of the navigation of that node that last succeeded, never
\* calls process again; and a node's lastNavigatedUrl is unset or the canonical
\* URL of a navigation of the node whose process resolved.
C20_FinishAndRecordAtomic ==
  [][/\ (/\ NavigateCalled
         /\ ~navigating[returned'.node]
         /\ \E n \in DOMAIN navs :
               /\ navs[n].node = returned'.node
               /\ LatestOn(n)
               /\ navs[n].phase \in {"finished", "recorded"}
               /\ navs[n].canon = returned'.arg)
          => /\ returned'.result = "resolved"
             /\ returned'.calls = <<>>
             /\ Len(navs') = Len(navs)
     /\ \A r \in Routers :
          \/ lastNavigatedUrl'[r] = Undefined
          \/ \E n \in DOMAIN navs' :
                /\ navs'[n].node = r
                /\ navs'[n].phase = "recorded"
                /\ navs'[n].canon = lastNavigatedUrl'[r]]_vars

====
